---------------------------- MODULE Spec2Model ----------------------------
(***************************************************************************)
(* A model of vuefinder-wsgi (src/vuefinder/__init__.py): the adapter      *)
(* registry of VuefinderApp, the resolution of adapter-qualified paths,    *)
(* the request handlers index, search, newfolder, newfile, rename, move,   *)
(* copy, delete, archive and unarchive, and dispatch_request with its      *)
(* handler table and its conversion of errors into responses.              *)
(*                                                                         *)
(* Strings are sequences of tokens.  The tokens "/" and ":" are the two    *)
(* separator characters the code looks for; every other token is a run of  *)
(* ordinary characters ("foo", ".zip", ".", "..").  "m1://foo/out.zip" is  *)
(* <<"m1", ":", "/", "/", "foo", "/", "out", ".zip">>.                     *)
(***************************************************************************)
EXTENDS Integers, Sequences, FiniteSets, TLC

VARIABLES
    _adapters,  \* VuefinderApp._adapters: the OrderedDict, a sequence of [key, fs]
    _default,   \* VuefinderApp._default: None or an Adapter [key, fs]
    store,      \* the backends' contents: backend id -> tree
    threads,    \* one record per running thread: its position and its locals
    results,    \* what each thread's calls returned or raised, in order
    hist,       \* the requests handled so far, each with the state before it
    enable_cors \* VuefinderApp.enable_cors

vars == <<_adapters, _default, store, threads, results, hist, enable_cors>>

NoStr == <<"<None>">>     \* a string that is not there: Python's None
None == [key |-> NoStr, fs |-> "None"]

\* F applied to the value of v: v is computed once, as a statement that
\* assigns a local variable computes its right-hand side once
Bind(v, F(_)) == CHOOSE r \in {F(x) : x \in {v}} : TRUE

(***************************************************************************)
(* Strings                                                                 *)
(***************************************************************************)
Min(S) == CHOOSE m \in S : \A n \in S : m <= n

\* the position of the first ":/" in s, 0 when there is none
FindSep(s) ==
    LET I == {i \in 1..(Len(s) - 1) : s[i] = ":" /\ s[i + 1] = "/"}
    IN  IF I = {} THEN 0 ELSE Min(I)

\* Python: ":/" in s
HasSep(s) == FindSep(s) # 0

\* Python: s.split(":/")
RECURSIVE SplitSep(_)
SplitSep(s) ==
    LET i == FindSep(s)
    IN  IF i = 0 THEN <<s>>
        ELSE <<SubSeq(s, 1, i - 1)>> \o SplitSep(SubSeq(s, i + 2, Len(s)))

\* Python: s.split("/")
RECURSIVE SplitSlash(_)
SplitSlash(s) ==
    LET I == {i \in 1..Len(s) : s[i] = "/"}
    IN  IF I = {} THEN <<s>>
        ELSE <<SubSeq(s, 1, Min(I) - 1)>>
                 \o SplitSlash(SubSeq(s, Min(I) + 1, Len(s)))

\* Python: "/".join(parts)
RECURSIVE JoinSlash(_)
JoinSlash(parts) ==
    IF parts = <<>> THEN <<>>
    ELSE IF Len(parts) = 1 THEN parts[1]
    ELSE parts[1] \o <<"/">> \o JoinSlash(Tail(parts))

\* Python: s.lstrip("/") and s.rstrip("/")
RECURSIVE lstrip(_)
lstrip(s) == IF s # <<>> /\ s[1] = "/" THEN lstrip(Tail(s)) ELSE s

RECURSIVE rstrip(_)
rstrip(s) ==
    IF s # <<>> /\ s[Len(s)] = "/" THEN rstrip(SubSeq(s, 1, Len(s) - 1)) ELSE s

(***************************************************************************)
(* fs.path, as the handlers use it                                        *)
(***************************************************************************)
\* fs.path.abspath: a leading slash is added when there is none; nothing
\* else is changed
abspath(p) == IF p # <<>> /\ p[1] = "/" THEN p ELSE <<"/">> \o p

\* fs.path.relpath
relpath(p) == lstrip(p)

\* the components fs.path.normpath keeps: "" and "." are dropped, ".." takes
\* the component before it away, and a ".." with nothing before it is an
\* IllegalBackReference
RECURSIVE NormParts(_, _)
NormParts(comps, acc) ==
    IF comps = <<>> THEN [ok |-> TRUE, parts |-> acc]
    ELSE LET c == Head(comps)
         IN  IF c = <<"..">>
             THEN IF acc = <<>> THEN [ok |-> FALSE, parts |-> <<>>]
                  ELSE NormParts(Tail(comps), SubSeq(acc, 1, Len(acc) - 1))
             ELSE IF c = <<>> \/ c = <<".">>
                  THEN NormParts(Tail(comps), acc)
                  ELSE NormParts(Tail(comps), Append(acc, c))

\* fs.path.iteratepath(p) with the error of normpath: [ok, parts]
iteratepath(p) == NormParts(SplitSlash(p), <<>>)

\* fs.path.normpath
normpath(p) ==
    LET n == iteratepath(p)
    IN  IF p # <<>> /\ p[1] = "/" THEN <<"/">> \o JoinSlash(n.parts)
        ELSE JoinSlash(n.parts)

\* fs.path.join of two paths (normalising; an absolute second path wins)
join(a, b) ==
    IF b = <<>> THEN normpath(a)
    ELSE IF a = <<>> \/ b[1] = "/" THEN normpath(b)
    ELSE normpath(a \o <<"/">> \o b)

joinOk(a, b) ==
    IF b = <<>> THEN iteratepath(a).ok
    ELSE IF a = <<>> \/ b[1] = "/" THEN iteratepath(b).ok
    ELSE iteratepath(a \o <<"/">> \o b).ok

\* fs.path.combine: no normalisation
combine(a, b) == IF a = <<>> THEN lstrip(b) ELSE rstrip(a) \o <<"/">> \o lstrip(b)

\* fs.path.basename: what follows the last slash
basename(p) == LET parts == SplitSlash(p) IN parts[Len(parts)]

\* fs.path.relativefrom(base, path)
CommonLen(a, b) ==
    LET m == IF Len(a) < Len(b) THEN Len(a) ELSE Len(b)
        D == {i \in 1..m : a[i] # b[i]}
    IN  IF D = {} THEN m ELSE Min(D) - 1

\* fs.path.relativefrom replaced by the last component of the path
relativefrom_flat(base, path) == basename(path)

relativefrom(base, path) ==
    LET bp == iteratepath(base).parts
        pp == iteratepath(path).parts
        c  == CommonLen(bp, pp)
    IN  JoinSlash([i \in 1..(Len(bp) - c) |-> <<"..">>]
                    \o SubSeq(pp, c + 1, Len(pp)))

\* fs.path.splitext(name)[1]: the extension, "" when there is none
ExtTokens == {".zip", ".txt"}
splitext_ext(name) ==
    IF Len(name) > 1 /\ name[Len(name)] \in ExtTokens
    THEN <<name[Len(name)]>> ELSE <<>>


(***************************************************************************)
(* Backends.  A backend's content is a tree: a function from the paths    *)
(* that exist (sequences of components, the root <<>> left out) to nodes.  *)
(* The operations are those of fs.base.FS as fs.memoryfs.MemoryFS, the     *)
(* backend of the tests, carries them out; each takes a path string.       *)
(***************************************************************************)
NoTree == <<>>

DirNode == [dir |-> TRUE, zip |-> FALSE, raw |-> "", tree |-> NoTree]
RawFile(d) == [dir |-> FALSE, zip |-> FALSE, raw |-> d, tree |-> NoTree]
ZipFile(z) == [dir |-> FALSE, zip |-> TRUE, raw |-> "", tree |-> z]

Parent(parts) == SubSeq(parts, 1, Len(parts) - 1)
Last(parts) == parts[Len(parts)]
IsPrefix(a, b) == Len(a) <= Len(b) /\ SubSeq(b, 1, Len(a)) = a

ExistsAt(t, parts) == parts = <<>> \/ parts \in DOMAIN t
IsDirAt(t, parts) == parts = <<>> \/ (parts \in DOMAIN t /\ t[parts].dir)
IsFileAt(t, parts) == parts \in DOMAIN t /\ ~t[parts].dir
ChildrenAt(t, parts) == {q \in DOMAIN t : Len(q) = Len(parts) + 1 /\ IsPrefix(parts, q)}
SubtreeAt(t, parts) == {q \in DOMAIN t : IsPrefix(parts, q)}

Put(t, parts, node) == [q \in (DOMAIN t) \cup {parts} |-> IF q = parts THEN node ELSE t[q]]
Drop(t, S) == [q \in (DOMAIN t) \ S |-> t[q]]

\* FS.exists, FS.isdir
fs_exists(t, p) == ExistsAt(t, iteratepath(p).parts)
fs_isdir(t, p) == IsDirAt(t, iteratepath(p).parts)

\* a total order on the tokens of names, for sorting and for enumerating
TokenOrder ==
    <<".txt", ".zip", "a", "b", "bar", "baz", "c", "empty", "f", "file", "foo", "foobar",
      "hello", "out", "w1", "w2", "w3", "w4", "zz">>
Rank(tok) ==
    IF \E i \in 1..Len(TokenOrder) : TokenOrder[i] = tok
    THEN CHOOSE i \in 1..Len(TokenOrder) : TokenOrder[i] = tok
    ELSE 0

\* s < u, token by token (a proper prefix is smaller)
RECURSIVE StrLess(_, _)
StrLess(s, u) ==
    IF u = <<>> THEN FALSE
    ELSE IF s = <<>> THEN TRUE
    ELSE IF Rank(s[1]) # Rank(u[1]) THEN Rank(s[1]) < Rank(u[1])
    ELSE StrLess(Tail(s), Tail(u))

\* the paths of S in the order the backend enumerates them
RECURSIVE Enumerate(_)
Enumerate(S) ==
    IF S = {} THEN <<>>
    ELSE LET m == CHOOSE x \in S : \A y \in S \ {x} : StrLess(Last(x), Last(y))
         IN  <<m>> \o Enumerate(S \ {m})

\* FS.scandir(path): [err, infos], an info is [name, is_dir]
fs_scandir(t, p) ==
    LET parts == iteratepath(p).parts
    IN  IF ~ExistsAt(t, parts) THEN [err |-> "ResourceNotFound", infos |-> <<>>]
        ELSE IF ~IsDirAt(t, parts) THEN [err |-> "DirectoryExpected", infos |-> <<>>]
        ELSE LET e == Enumerate(ChildrenAt(t, parts))
             IN  [err |-> "",
                  infos |-> [i \in 1..Len(e) |-> [name |-> Last(e[i]), is_dir |-> t[e[i]].dir]]]

\* FS.listdir(path) of an existing directory
fs_listdir(t, p) ==
    LET e == Enumerate(ChildrenAt(t, iteratepath(p).parts))
    IN  [i \in 1..Len(e) |-> Last(e[i])]

(***************************************************************************)
(* Writes.  An outcome is [err, st, log]: the error raised ("" for none),  *)
(* the backends' contents afterwards, and the writes made, in order; a     *)
(* write is [op, fs, parts, node] with op "put" or "del".                  *)
(***************************************************************************)
Ok(st, log) == [err |-> "", st |-> st, log |-> log]
Err(e, st, log) == [err |-> e, st |-> st, log |-> log]

PutAt(o, fs, parts, node) ==
    Ok([o.st EXCEPT ![fs] = Put(Drop(@, SubtreeAt(@, parts)), parts, node)],
       Append(o.log, [op |-> "put", fs |-> fs, parts |-> parts, node |-> node]))

DelAt(o, fs, parts) ==
    Ok([o.st EXCEPT ![fs] = Drop(@, SubtreeAt(@, parts))],
       Append(o.log, [op |-> "del", fs |-> fs, parts |-> parts, node |-> DirNode]))

\* FS.makedir(path, recreate) of MemoryFS
makedir(o, fs, parts, recreate) ==
    LET t == o.st[fs]
    IN  IF ExistsAt(t, parts)
        THEN IF ~recreate THEN Err("DirectoryExists", o.st, o.log)
             ELSE IF ~IsDirAt(t, parts) THEN Err("DirectoryExpected", o.st, o.log)
             ELSE o
        ELSE IF ~IsDirAt(t, Parent(parts)) THEN Err("ResourceNotFound", o.st, o.log)
        ELSE PutAt(o, fs, parts, DirNode)

\* FS.upload / FS.openbin(path, "w") of MemoryFS: the file is created or
\* truncated and filled with the data
writefile(o, fs, parts, node) ==
    LET t == o.st[fs]
    IN  IF parts = <<>> THEN Err("FileExpected", o.st, o.log)
        ELSE IF ~IsDirAt(t, Parent(parts)) THEN Err("ResourceNotFound", o.st, o.log)
        ELSE IF IsDirAt(t, parts) THEN Err("FileExpected", o.st, o.log)
        ELSE PutAt(o, fs, parts, node)

\* FS.openbin(path) for reading: the error, "" when the file can be read
ReadErr(t, parts) ==
    IF ~ExistsAt(t, parts) THEN "ResourceNotFound"
    ELSE IF IsDirAt(t, parts) THEN "FileExpected"
    ELSE ""

\* FS.remove(path)
fs_remove(o, fs, parts) ==
    IF ReadErr(o.st[fs], parts) # "" THEN Err(ReadErr(o.st[fs], parts), o.st, o.log)
    ELSE DelAt(o, fs, parts)

\* FS.removetree(path): the root is emptied, any other directory goes
fs_removetree(o, fs, parts) ==
    LET t == o.st[fs]
    IN  IF ~ExistsAt(t, parts) THEN Err("ResourceNotFound", o.st, o.log)
        ELSE IF ~IsDirAt(t, parts) THEN Err("DirectoryExpected", o.st, o.log)
        ELSE IF parts = <<>>
             THEN Ok([o.st EXCEPT ![fs] = NoTree],
                     Append(o.log, [op |-> "del", fs |-> fs, parts |-> parts, node |-> DirNode]))
        ELSE DelAt(o, fs, parts)

\* fs.copy.copy_file(src_fs, src_path, dst_fs, dst_path): src is the content
\* of the source; within one backend FS.copy refuses a file copied onto itself
copy_file(o, src, sfs, sparts, dfs, dparts) ==
    IF ReadErr(src, sparts) # "" THEN Err(ReadErr(src, sparts), o.st, o.log)
    ELSE IF sfs = dfs /\ sparts = dparts THEN Err("IllegalDestination", o.st, o.log)
    ELSE writefile(o, dfs, dparts, src[sparts])

\* the walk of fs.copy.copy_dir, breadth first: per directory its
\* subdirectories are made (recreate=True), then its files are copied
Under(sroot, droot, q) == droot \o SubSeq(q, Len(sroot) + 1, Len(q))

RECURSIVE WalkSteps(_, _, _, _)
WalkSteps(src, queue, sroot, droot) ==
    IF queue = <<>> THEN <<>>
    ELSE LET kids == Enumerate(ChildrenAt(src, Head(queue)))
             dirs == SelectSeq(kids, LAMBDA q : src[q].dir)
             files == SelectSeq(kids, LAMBDA q : ~src[q].dir)
         IN  [i \in 1..Len(dirs) |-> [mk |-> TRUE, from |-> dirs[i], to |-> Under(sroot, droot, dirs[i])]]
               \o [i \in 1..Len(files) |-> [mk |-> FALSE, from |-> files[i], to |-> Under(sroot, droot, files[i])]]
               \o WalkSteps(src, Tail(queue) \o dirs, sroot, droot)

RECURSIVE RunSteps(_, _, _, _, _)
RunSteps(o, steps, src, sfs, dfs) ==
    IF o.err # "" \/ steps = <<>> THEN o
    ELSE LET x == Head(steps)
         IN  Bind(IF x.mk THEN makedir(o, dfs, x.to, TRUE)
                  ELSE copy_file(o, src, sfs, x.from, dfs, x.to),
                  LAMBDA n : RunSteps(n, Tail(steps), src, sfs, dfs))

\* fs.copy.copy_dir(src_fs, src_path, dst_fs, dst_path).  With the
\* destination inside the source the walk finds the directories it has just
\* made and does not end ("NoReturn"); else the source is walked as it is when
\* the copy starts
copy_dir(o, src, sfs, sparts, dfs, dparts) ==
    IF ~ExistsAt(src, sparts) THEN Err("ResourceNotFound", o.st, o.log)
    ELSE IF ~IsDirAt(src, sparts) THEN Err("DirectoryExpected", o.st, o.log)
    ELSE Bind(makedir(o, dfs, dparts, TRUE), LAMBDA m :
           IF m.err # "" THEN m
           ELSE IF sfs = dfs /\ IsPrefix(sparts, dparts) /\ sparts # dparts
                THEN Err("NoReturn", m.st, m.log)
           ELSE Bind(WalkSteps(src, <<sparts>>, sparts, dparts), LAMBDA steps :
                  RunSteps(m, steps, src, sfs, dfs)))

\* fs.move.move_file: MemoryFS.move within one backend (the entry is set at
\* the destination, then taken from the source; onto itself nothing happens),
\* else copy_file and remove
move_file(o, sfs, sparts, dfs, dparts) ==
    LET t == o.st[sfs]
    IN  IF sfs = dfs
        THEN IF ~ExistsAt(t, sparts) \/ sparts = <<>> THEN Err("ResourceNotFound", o.st, o.log)
             ELSE IF IsDirAt(t, sparts) THEN Err("FileExpected", o.st, o.log)
             ELSE IF dparts = <<>> \/ ~ExistsAt(t, Parent(dparts))
                  THEN Err("ResourceNotFound", o.st, o.log)
             ELSE IF sparts = dparts THEN o
             ELSE Bind(PutAt(o, dfs, dparts, t[sparts]), LAMBDA m : DelAt(m, sfs, sparts))
        ELSE Bind(copy_file(o, t, sfs, sparts, dfs, dparts), LAMBDA c :
               IF c.err # "" THEN c ELSE fs_remove(c, sfs, sparts))

\* fs.move.move_dir: makedir(dst, recreate=True), copy_dir, removetree(src)
move_dir(o, sfs, sparts, dfs, dparts) ==
    Bind(makedir(o, dfs, dparts, TRUE), LAMBDA m :
      IF m.err # "" THEN m
      ELSE Bind(copy_dir(m, m.st[sfs], sfs, sparts, dfs, dparts), LAMBDA c :
             IF c.err # "" THEN c ELSE fs_removetree(c, sfs, sparts)))

(***************************************************************************)
(* The adapter registry: VuefinderApp._adapters and VuefinderApp._default  *)
(***************************************************************************)
Scheme == <<":", "/", "/">>    \* "://"

Adapter(key, fs) == [key |-> key, fs |-> fs]

\* key in self._adapters
HasKey(ads, key) == \E i \in 1..Len(ads) : ads[i].key = key

\* self._adapters[key], for a key that is present
GetItem(ads, key) == ads[CHOOSE i \in 1..Len(ads) : ads[i].key = key].fs

\* self._adapters[key] = fs: a present key keeps its place
SetItem(ads, key, fs) ==
    IF HasKey(ads, key)
    THEN [i \in 1..Len(ads) |-> IF ads[i].key = key THEN Adapter(key, fs) ELSE ads[i]]
    ELSE Append(ads, Adapter(key, fs))

\* self._adapters.pop(key, None)
PopItem(ads, key) == SelectSeq(ads, LAMBDA e : e.key # key)

\* list(self._adapters.keys())
KeyList(ads) == [i \in 1..Len(ads) |-> ads[i].key]

\* self._adapters.get(key, None) or fallback_fs
GetOr(ads, key, fallback_fs) == IF HasKey(ads, key) THEN GetItem(ads, key) ELSE fallback_fs

\* _abspath: what follows the first ":/" (up to the next one), made absolute
_abspath(path) ==
    IF HasSep(path) THEN abspath(SplitSep(path)[2]) ELSE abspath(path)

\* _split_path(path, fallback_fs): [err, fs, path]; a fallback_fs of None
\* ("None") is replaced by self._default.fs, an AttributeError when there is
\* no default adapter
_split_path(ads, def, path, fallback_fs) ==
    IF fallback_fs = "None" /\ def = None
    THEN [err |-> "AttributeError", fs |-> "None", path |-> <<>>]
    ELSE LET fb == IF fallback_fs = "None" THEN def.fs ELSE fallback_fs
         IN  IF ~HasSep(path) THEN [err |-> "", fs |-> fb, path |-> _abspath(path)]
             ELSE [err |-> "", fs |-> GetOr(ads, SplitSep(path)[1], fb),
                   path |-> _abspath(path)]

(***************************************************************************)
(* Requests and responses                                                  *)
(***************************************************************************)
Request(method, q, adapter, path) ==
    [method |-> method, q |-> q, adapter |-> adapter, path |-> path,
     name |-> NoStr, item |-> NoStr, items |-> <<>>, filter |-> NoStr]

NoRequest == Request("", NoStr, NoStr, NoStr)

\* a response; status 0 with exc set is an exception that leaves
\* dispatch_request.  Not part of the body: fs, the backend that was listed,
\* and afs, the backend of the adapter whose key the body reports
Response(status, exc) ==
    [status |-> status, exc |-> exc, adapter |-> NoStr, storages |-> <<>>,
     storage_info |-> <<>>, dirname |-> NoStr, files |-> <<>>, fs |-> "None",
     afs |-> "None"]

NoResponse == Response(0, "")

\* dispatch_request's except clauses: an FSError or a BadRequest becomes a 400
FSErrors ==
    {"ResourceNotFound", "DirectoryExpected", "FileExpected", "DirectoryExists",
     "DestinationExists", "IllegalDestination", "DirectoryNotEmpty"}
Failure(exc) ==
    IF exc \in FSErrors \cup {"BadRequest"} THEN Response(400, exc) ELSE Response(0, exc)

\* str.lower on a name
LowerTok(tok) ==
    CASE tok = "Foo" -> "foo" [] tok = "Bar" -> "bar" [] tok = "Baz" -> "baz"
      [] OTHER -> tok
lower(name) == [i \in 1..Len(name) |-> LowerTok(name[i])]

\* the order of the sort key ("0_" if i.is_dir else "1_") + i.name.lower()
KeyLess(a, b) ==
    IF a.is_dir # b.is_dir THEN a.is_dir ELSE StrLess(lower(a.name), lower(b.name))

\* list.sort(key=...): stable
RECURSIVE SortInfos(_)
SortInfos(infos) ==
    IF infos = <<>> THEN <<>>
    ELSE Bind(SortInfos(SubSeq(infos, 1, Len(infos) - 1)), LAMBDA r :
           LET x == infos[Len(infos)]
               k == Cardinality({i \in 1..Len(r) : ~KeyLess(x, r[i])})
           IN  SubSeq(r, 1, k) \o <<x>> \o SubSeq(r, k + 1, Len(r)))

\* to_vuefinder_resource(storage, path, info)
to_vuefinder_resource(storage, path, info) ==
    [type |-> IF info.is_dir THEN "dir" ELSE "file",
     path |-> storage \o <<":", "/">> \o (IF path = <<"/">> THEN <<>> ELSE path)
                \o <<"/">> \o info.name,
     basename |-> info.name,
     storage |-> storage]

(***************************************************************************)
(* Threads.  A thread is idle or inside one call; inside a call its pc     *)
(* names the next read or write of shared state, and two threads           *)
(* interleave between any two of them (the code takes no lock).            *)
(***************************************************************************)
NoIter == [items |-> <<>>, valid |-> TRUE, live |-> FALSE]

Idle(left) ==
    [pc |-> "idle", left |-> left, key |-> NoStr, fs |-> "None", req |-> NoRequest,
     c |-> FALSE, adapter |-> None, dadapter |-> None, lfs |-> "None", path |-> NoStr,
     infos |-> <<>>, storages |-> <<>>, it |-> NoIter, si |-> <<>>, resp |-> NoResponse]

Return(th, resp) == [Idle(th.left - 1) EXCEPT !.pc = "ret", !.resp = resp, !.req = th.req]
Raise(th, exc) == Return(th, Failure(exc))

\* _get_adapter without its fallback: self._adapters[key] whatever the
\* membership test said
GetAdapter2_NoFallback(th, ads, def) ==
    IF HasKey(ads, th.req.adapter)
    THEN [err |-> "", adapter |-> Adapter(th.req.adapter, GetItem(ads, th.req.adapter))]
    ELSE [err |-> "KeyError", adapter |-> None]

\* _get_adapter, second half: Adapter(key, self._adapters[key]) when the
\* membership test (th.c) succeeded, else self._default; "KeyError" when the
\* key is gone by now
GetAdapter2(th, ads, def) ==
    IF th.c
    THEN IF HasKey(ads, th.req.adapter)
         THEN [err |-> "", adapter |-> Adapter(th.req.adapter, GetItem(ads, th.req.adapter))]
         ELSE [err |-> "KeyError", adapter |-> None]
    ELSE [err |-> "", adapter |-> def]

\* _get_full_path once the adapter a is there: a.key is read even when the
\* request has a path
FullPath(req, a) ==
    IF a = None THEN [err |-> "AttributeError", path |-> NoStr]
    ELSE [err |-> "", path |-> IF req.path = NoStr THEN a.key \o Scheme ELSE req.path]

\* the iterator of self._adapters.items(): the next item, or RuntimeError
\* when the OrderedDict changed since the iterator was made; an iterator
\* that is at its end does not look
IterDone(it) == it.items = <<>>
IterError(it) == it.items # <<>> /\ ~it.valid

\* the files of the response
Files(adapter, path, infos) ==
    [i \in 1..Len(infos) |-> to_vuefinder_resource(adapter.key, path, infos[i])]

\* one step of _index
IndexStep(th, ads, def, st) ==
    CASE th.pc = "ix_adapter_in" ->
           [th EXCEPT !.c = HasKey(ads, th.req.adapter), !.pc = "ix_adapter_get"]
      [] th.pc = "ix_adapter_get" ->
           LET g == GetAdapter2(th, ads, def)
           IN  IF g.err # "" THEN Raise(th, g.err)
               ELSE [th EXCEPT !.adapter = g.adapter, !.pc = "dg_adapter_in"]
      [] th.pc = "dg_adapter_in" ->
           [th EXCEPT !.c = HasKey(ads, th.req.adapter), !.pc = "dg_adapter_get"]
      [] th.pc = "dg_adapter_get" ->
           LET g == GetAdapter2(th, ads, def)
           IN  IF g.err # "" THEN Raise(th, g.err)
               ELSE [th EXCEPT !.dadapter = g.adapter, !.pc = "dg_path_in"]
      [] th.pc = "dg_path_in" ->
           [th EXCEPT !.c = HasKey(ads, th.req.adapter), !.pc = "dg_path_get"]
      [] th.pc = "dg_path_get" ->
           LET g == GetAdapter2(th, ads, def)
               f == FullPath(th.req, g.adapter)
           IN  IF g.err # "" THEN Raise(th, g.err)
               ELSE IF f.err # "" THEN Raise(th, f.err)
               ELSE IF th.dadapter = None THEN Raise(th, "AttributeError")
               ELSE [th EXCEPT !.lfs = th.dadapter.fs, !.path = _abspath(f.path),
                               !.pc = "ix_scandir"]
      [] th.pc = "ix_scandir" ->
           LET sc == fs_scandir(st[th.lfs], th.path)
               fl == IF th.req.filter = NoStr THEN sc.infos
                     ELSE SelectSeq(sc.infos, LAMBDA i : \E k \in 1..Len(i.name) :
                                        <<i.name[k]>> = th.req.filter)
           IN  IF sc.err # "" THEN Raise(th, sc.err)
               ELSE IF th.adapter = None THEN Raise(th, "AttributeError")
               ELSE [th EXCEPT !.infos = SortInfos(fl), !.pc = "ix_keys"]
      [] th.pc = "ix_keys" ->
           [th EXCEPT !.storages = KeyList(ads), !.pc = "ix_items"]
      [] th.pc = "ix_items" ->
           [th EXCEPT !.it = [items |-> ads, valid |-> TRUE, live |-> TRUE],
                      !.pc = "ix_next"]
      [] th.pc = "ix_next" ->
           IF IterDone(th.it) THEN [th EXCEPT !.it = NoIter, !.pc = "ix_dirname_in"]
           ELSE IF IterError(th.it) THEN Raise(th, "RuntimeError")
           ELSE [th EXCEPT !.si = Append(th.si, Head(th.it.items).key),
                           !.it.items = Tail(th.it.items)]
      [] th.pc = "ix_dirname_in" ->
           [th EXCEPT !.c = HasKey(ads, th.req.adapter), !.pc = "ix_dirname_get"]
      [] th.pc = "ix_dirname_get" ->
           LET g == GetAdapter2(th, ads, def)
               f == FullPath(th.req, g.adapter)
           IN  IF g.err # "" THEN Raise(th, g.err)
               ELSE IF f.err # "" THEN Raise(th, f.err)
               ELSE Return(th, [Response(200, "") EXCEPT
                                  !.adapter = th.adapter.key,
                                  !.storages = th.storages,
                                  !.storage_info = th.si,
                                  !.dirname = f.path,
                                  !.files = Files(th.adapter, th.path, th.infos),
                                  !.fs = th.lfs,
                                  !.afs = th.adapter.fs])

\* _index run from its first step to its return with nothing in between
RECURSIVE RunIndex(_, _, _, _)
RunIndex(th, ads, def, st) ==
    IF th.pc = "ret" THEN th.resp
    ELSE Bind(IndexStep(th, ads, def, st), LAMBDA n : RunIndex(n, ads, def, st))

_index(req, ads, def, st) ==
    RunIndex([Idle(0) EXCEPT !.pc = "ix_adapter_in", !.req = req], ads, def, st)

(***************************************************************************)
(* Bounds and the values the calls draw their arguments from               *)
(***************************************************************************)
MaxSeqCalls == 3     \* calls of the one thread of the sequential specification
MaxCalls == 2        \* calls per thread of the concurrent specification
NumThreads == 2      \* threads of the concurrent specification
NumWorkers == 2      \* workers of test_threading

RegKeys == {<<"m1">>, <<"m2">>}
UnknownKey == <<"zz">>
RegBackends == {"M1", "M2"}
WorkerKey(i) == <<"fs" \o ToString(i)>>
WorkerBackend(i) == "W" \o ToString(i)
WorkerFile(i) == <<"w" \o ToString(i)>>
Workers == 1..NumWorkers
Backends == RegBackends \cup {WorkerBackend(i) : i \in Workers}

\* the content of the backends: m1 as create_test_app fills it (fill_fs),
\* m2 empty, and one marker file in each worker's backend
TestTree ==
    [q \in {<<<<"foo">>>>, <<<<"foo">>, <<"file", ".txt">>>>, <<<<"foo">>, <<"foo", ".txt">>>>,
            <<<<"foo">>, <<"bar">>>>, <<<<"foo">>, <<"bar">>, <<"baz">>>>,
            <<<<"foobar">>>>, <<<<"foobar">>, <<"empty">>>>,
            <<<<"foobar">>, <<"hello", ".txt">>>>} |->
        CASE q \in {<<<<"foo">>>>, <<<<"foo">>, <<"bar">>>>, <<<<"foobar">>>>} -> DirNode
          [] q = <<<<"foo">>, <<"file", ".txt">>>> -> RawFile("Hello World!")
          [] q = <<<<"foo">>, <<"foo", ".txt">>>> -> RawFile("foo bar baz")
          [] q = <<<<"foobar">>, <<"hello", ".txt">>>> -> RawFile("Hello!")
          [] OTHER -> RawFile("")]

InitStore ==
    [b \in Backends |->
        IF b = "M1" THEN TestTree
        ELSE IF b = "M2" THEN NoTree
        ELSE LET i == CHOOSE j \in Workers : WorkerBackend(j) = b
             IN  (<<WorkerFile(i)>> :> RawFile(""))]

IndexRequests ==
    {Request("GET", <<"index">>, a, NoStr) : a \in RegKeys \cup {NoStr}}
        \cup {Request("GET", <<"index">>, <<"m2">>, <<"m1">> \o Scheme \o <<"foo">>)}

(***************************************************************************)
(* The registry's operations, step by step                                 *)
(***************************************************************************)
\* an OrderedDict that gains or loses a key invalidates the iterators made
\* from it; a new OrderedDict leaves the old one to its iterators
Invalidate(ths) ==
    [u \in DOMAIN ths |-> IF ths[u].it.live THEN [ths[u] EXCEPT !.it.valid = FALSE] ELSE ths[u]]
Detach(ths) == [u \in DOMAIN ths |-> [ths[u] EXCEPT !.it.live = FALSE]]

CanCall(t) == threads[t].pc = "idle" /\ threads[t].left > 0

\* add_fs, line 105: self._adapters[key] = fs
AddSet(t, key, fs) ==
    /\ _adapters' = SetItem(_adapters, key, fs)
    /\ threads' = [(IF HasKey(_adapters, key) THEN threads ELSE Invalidate(threads))
                     EXCEPT ![t].pc = "add_len", ![t].key = key, ![t].fs = fs]
    /\ UNCHANGED <<enable_cors, _default, store, results, hist>>

add_fs(t) ==
    /\ CanCall(t)
    /\ \E key \in RegKeys, fs \in RegBackends : AddSet(t, key, fs)

\* add_fs, line 106: if len(self._adapters) == 1
add_fs_len(t) ==
    /\ threads[t].pc = "add_len"
    /\ threads' = [threads EXCEPT ![t] =
                     IF Len(_adapters) = 1 THEN [@ EXCEPT !.pc = "add_default"]
                     ELSE Idle(@.left - 1)]
    /\ UNCHANGED <<enable_cors, _adapters, _default, store, results, hist>>

\* add_fs, line 107: self._default = Adapter(key, fs)
add_fs_default(t) ==
    /\ threads[t].pc = "add_default"
    /\ _default' = Adapter(threads[t].key, threads[t].fs)
    /\ threads' = [threads EXCEPT ![t] = Idle(@.left - 1)]
    /\ UNCHANGED <<enable_cors, _adapters, store, results, hist>>

\* remove_fs: self._adapters.pop(key, None)
Pop(t, key) ==
    /\ _adapters' = PopItem(_adapters, key)
    /\ threads' = [(IF HasKey(_adapters, key) THEN Invalidate(threads) ELSE threads)
                     EXCEPT ![t] = Idle(@.left - 1)]
    /\ UNCHANGED <<enable_cors, _default, store, results, hist>>

remove_fs(t) ==
    /\ CanCall(t)
    /\ \E key \in RegKeys : Pop(t, key)

\* clear: self._adapters = OrderedDict()
clear(t) ==
    /\ CanCall(t)
    /\ _adapters' = <<>>
    /\ threads' = [Detach(threads) EXCEPT ![t] = Idle(@.left - 1)]
    /\ UNCHANGED <<enable_cors, _default, store, results, hist>>

(***************************************************************************)
(* dispatch_request of an index request, step by step                      *)
(***************************************************************************)
\* what a call left behind: the response of a request, or the pair a
\* resolution returned (res), and the registry as it was on return
NoRes == [err |-> "", fs |-> "None", path |-> NoStr]
Result(op, req, resp, res, ads, def) ==
    [op |-> op, req |-> req, resp |-> resp, res |-> res, ads |-> ads, def |-> def]
NoResult == Result("", NoRequest, NoResponse, NoRes, <<>>, None)

\* the thread takes the step th -> nth of a handler
Advance(t, nth) ==
    IF nth.pc = "ret"
    THEN /\ threads' = [threads EXCEPT ![t] = Idle(nth.left)]
         /\ results' = [results EXCEPT ![t] = Result("index", nth.req, nth.resp, NoRes, _adapters, _default)]
    ELSE /\ threads' = [threads EXCEPT ![t] = nth]
         /\ UNCHANGED results

Dispatch(t, req) ==
    /\ Advance(t, IndexStep([threads[t] EXCEPT !.pc = "ix_adapter_in", !.req = req],
                            _adapters, _default, store))
    /\ UNCHANGED <<enable_cors, _adapters, _default, store, hist>>

dispatch_index(t) ==
    /\ CanCall(t)
    /\ \E req \in IndexRequests : Dispatch(t, req)

index_step(t) ==
    /\ threads[t].pc \notin {"idle", "add_len", "add_default"}
    /\ Advance(t, IndexStep(threads[t], _adapters, _default, store))
    /\ UNCHANGED <<enable_cors, _adapters, _default, store, hist>>

(***************************************************************************)
(* Resolution called on its own: delegate(request) and _split_path(path)   *)
(***************************************************************************)
RECURSIVE RunDelegate(_, _, _, _)
RunDelegate(th, ads, def, st) ==
    IF th.pc \in {"ix_scandir", "ret"} THEN th
    ELSE Bind(IndexStep(th, ads, def, st), LAMBDA n : RunDelegate(n, ads, def, st))

\* delegate(request): [err, fs, path]
delegate(req, ads, def) ==
    Bind(RunDelegate([Idle(0) EXCEPT !.pc = "dg_adapter_in", !.req = req], ads, def, <<>>),
         LAMBDA th :
           IF th.pc = "ret" THEN [err |-> th.resp.exc, fs |-> "None", path |-> NoStr]
           ELSE [err |-> "", fs |-> th.lfs, path |-> th.path])

PathKeys == RegKeys \cup {UnknownKey, <<>>}
PathRests == {<<>>, <<"foo">>, <<"foo", "/", "bar">>}
BarePaths == {<<"foo">>, <<"/", "foo">>, <<>>}
PathStrings == {k \o Scheme \o r : k \in PathKeys, r \in PathRests} \cup BarePaths

call_delegate(t) ==
    /\ CanCall(t)
    /\ \E a \in RegKeys \cup {NoStr, UnknownKey, <<>>}, pth \in PathStrings \cup {NoStr} :
         LET req == Request("GET", <<"index">>, a, pth)
         IN  results' = [results EXCEPT ![t] =
                           Result("delegate", req, NoResponse,
                                  delegate(req, _adapters, _default), _adapters, _default)]
    /\ threads' = [threads EXCEPT ![t] = Idle(@.left - 1)]
    /\ UNCHANGED <<enable_cors, _adapters, _default, store, hist>>

call_split_path(t) ==
    /\ CanCall(t)
    /\ \E pth \in PathStrings, fb \in RegBackends \cup {"None"} :
         results' = [results EXCEPT ![t] =
                       Result("_split_path", [NoRequest EXCEPT !.path = pth, !.item = <<fb>>],
                              NoResponse,
                              _split_path(_adapters, _default, pth, fb), _adapters, _default)]
    /\ threads' = [threads EXCEPT ![t] = Idle(@.left - 1)]
    /\ UNCHANGED <<enable_cors, _adapters, _default, store, hist>>

(***************************************************************************)
(* test_threading: create_test_app, then each worker adds its adapter,     *)
(* dispatches one index request against it and removes it                  *)
(***************************************************************************)
Main == 0

main_add_fs ==
    /\ CanCall(Main)
    /\ IF threads[Main].left = 2 THEN AddSet(Main, <<"m1">>, "M1")
       ELSE AddSet(Main, <<"m2">>, "M2")

Started(i) == threads[Main].pc = "idle" /\ threads[Main].left = 0 /\ threads[i].pc = "idle"

WorkerRequest(i) ==
    Request("GET", <<"index">>, WorkerKey(i), WorkerKey(i) \o Scheme)

worker_add_fs(i) ==
    /\ Started(i) /\ threads[i].left = 3
    /\ AddSet(i, WorkerKey(i), WorkerBackend(i))

worker_dispatch(i) ==
    /\ Started(i) /\ threads[i].left = 2
    /\ Dispatch(i, WorkerRequest(i))

worker_remove_fs(i) ==
    /\ Started(i) /\ threads[i].left = 1
    /\ Pop(i, WorkerKey(i))

(***************************************************************************)
(* The handlers that write: transfer (move, copy), archive, unarchive.     *)
(* A handler's outcome is [resp, st, log].                                 *)
(***************************************************************************)
Out(resp, st, log) == [resp |-> resp, st |-> st, log |-> log]

PathParts(p) == iteratepath(p).parts

\* _transfer, the body of the loop: one item
TransferItem(o, ads, def, fs, dst, item, moving) ==
    LET src == _split_path(ads, def, item, fs)
        dst_path == combine(dst.path, basename(src.path))
        sp == PathParts(src.path)
        dp == PathParts(dst_path)
    IN  IF fs_isdir(o.st[src.fs], src.path)
        THEN IF moving THEN move_dir(o, src.fs, sp, dst.fs, dp)
             ELSE copy_dir(o, o.st[src.fs], src.fs, sp, dst.fs, dp)
        ELSE IF moving THEN move_file(o, src.fs, sp, dst.fs, dp)
             ELSE copy_file(o, o.st[src.fs], src.fs, sp, dst.fs, dp)

RECURSIVE TransferItems(_, _, _, _, _, _, _)
TransferItems(o, ads, def, fs, dst, items, moving) ==
    IF o.err # "" \/ items = <<>> THEN o
    ELSE Bind(TransferItem(o, ads, def, fs, dst, Head(items), moving), LAMBDA n :
           TransferItems(n, ads, def, fs, dst, Tail(items), moving))

\* _transfer(request, transfer_dir, transfer_file); moving: move.move_dir and
\* move.move_file, else copy.copy_dir and copy.copy_file
_transfer(req, ads, def, st, moving) ==
    Bind(delegate(req, ads, def), LAMBDA d :
      IF d.err # "" THEN Out(Failure(d.err), st, <<>>)
      ELSE Bind(_split_path(ads, def, IF req.item = NoStr THEN <<>> ELSE req.item, d.fs),
                LAMBDA dst :
        Bind(TransferItems(Ok(st, <<>>), ads, def, d.fs, dst, req.items, moving), LAMBDA o :
          IF o.err # "" THEN Out(Failure(o.err), o.st, o.log)
          ELSE Out(_index(req, ads, def, o.st), o.st, o.log))))

\* a move that leaves the sources where they are
_move_keeping(req, ads, def, st) == _transfer(req, ads, def, st, FALSE)
\* a copy that takes the sources away
_copy_removing(req, ads, def, st) == _transfer(req, ads, def, st, TRUE)

_move(req, ads, def, st) == _transfer(req, ads, def, st, TRUE)
_copy(req, ads, def, st) == _transfer(req, ads, def, st, FALSE)

\* the archive being written (ZipFS(f, write=True), a temporary directory
\* tree): [err, zip].  makedir is called without recreate
zip_makedir(z, p) ==
    LET n == iteratepath(p)
    IN  IF ~n.ok THEN [z EXCEPT !.err = "IllegalBackReference"]
        ELSE IF ExistsAt(z.zip, n.parts) THEN [z EXCEPT !.err = "DirectoryExists"]
        ELSE IF ~IsDirAt(z.zip, Parent(n.parts)) THEN [z EXCEPT !.err = "ResourceNotFound"]
        ELSE [z EXCEPT !.zip = Put(@, n.parts, DirNode)]

zip_writefile(z, p, node) ==
    LET n == iteratepath(p)
    IN  IF ~n.ok THEN [z EXCEPT !.err = "IllegalBackReference"]
        ELSE IF n.parts = <<>> THEN [z EXCEPT !.err = "FileExpected"]
        ELSE IF ~IsDirAt(z.zip, Parent(n.parts)) THEN [z EXCEPT !.err = "ResourceNotFound"]
        ELSE IF IsDirAt(z.zip, n.parts) THEN [z EXCEPT !.err = "FileExpected"]
        ELSE [z EXCEPT !.zip = Put(@, n.parts, node)]

\* _write_zip(zip, fs, paths, base): t is the content of fs
RECURSIVE _write_zip(_, _, _, _)
_write_zip(z, t, paths, base) ==
    IF z.err # "" \/ paths = <<>> THEN z
    ELSE LET path == paths[Len(paths)]
             rest == SubSeq(paths, 1, Len(paths) - 1)
             dst_path == relativefrom(base, path)
             names == fs_listdir(t, path)
         IN  IF fs_isdir(t, path)
             THEN Bind(zip_makedir(z, dst_path), LAMBDA n :
                    Bind([i \in 1..Len(names) |-> join(path, names[i])] \o rest, LAMBDA more :
                      _write_zip(n, t, more, base)))
             ELSE IF ReadErr(t, PathParts(path)) # ""
                  THEN [z EXCEPT !.err = ReadErr(t, PathParts(path))]
             ELSE Bind(zip_writefile(z, dst_path, t[PathParts(path)]), LAMBDA n :
                    _write_zip(n, t, rest, base))

\* is_valid_filename(name, platform="universal"), for the names of the model
is_valid_filename(name) ==
    /\ name # <<>>
    /\ \A i \in 1..Len(name) : name[i] \notin {"/", ":", ".", ".."}

\* _get_filename that lets any name pass
_get_filename_lax(req) ==
    [err |-> "", name |-> IF req.name = NoStr THEN <<"None", ".zip">> ELSE req.name \o <<".zip">>]

\* _get_filename(payload, ext=".zip"): [err, name]
_get_filename(req) ==
    IF req.name = NoStr \/ ~is_valid_filename(req.name)
    THEN [err |-> "BadRequest", name |-> NoStr]
    ELSE [err |-> "",
          name |-> IF splitext_ext(req.name) # <<".zip">> THEN req.name \o <<".zip">>
                   ELSE req.name]

\* _archive: the archive file is opened for writing (it is there, empty,
\* while the items are read), the archive is written when the ZipFS is
\* closed, whether _write_zip raised or not
_archive(req, ads, def, st) ==
    Bind(_get_filename(req), LAMBDA name :
      IF name.err # "" THEN Out(Failure(name.err), st, <<>>)
      ELSE Bind(delegate(req, ads, def), LAMBDA d :
        IF d.err # "" THEN Out(Failure(d.err), st, <<>>)
        ELSE Bind(join(d.path, name.name), LAMBDA archive_path :
          IF fs_exists(st[d.fs], archive_path) THEN Out(Failure("BadRequest"), st, <<>>)
          ELSE Bind(writefile(Ok(st, <<>>), d.fs, PathParts(archive_path), RawFile("")),
                    LAMBDA opened :
            IF opened.err # "" THEN Out(Failure(opened.err), st, <<>>)
            ELSE Bind(_write_zip([err |-> "", zip |-> NoTree], opened.st[d.fs],
                                 [i \in 1..Len(req.items) |-> _abspath(req.items[i])],
                                 d.path),
                      LAMBDA z :
              Bind(PutAt(opened, d.fs, PathParts(archive_path), ZipFile(z.zip)),
                   LAMBDA closed :
                IF z.err # "" THEN Out(Failure(z.err), closed.st, closed.log)
                ELSE Out(_index(req, ads, def, closed.st), closed.st, closed.log)))))))

\* _unarchive, the pass before the copy: some file of the archive is there,
\* at its destination, already
FileCollides(zip, t, path) ==
    \E q \in DOMAIN zip :
        /\ ~zip[q].dir
        /\ fs_exists(t, join(path, relpath(<<"/">> \o JoinSlash(q))))

\* _unarchive
_unarchive(req, ads, def, st) ==
    Bind(delegate(req, ads, def), LAMBDA d :
      LET ap == PathParts(_abspath(req.item))
          t == st[d.fs]
      IN  IF d.err # "" THEN Out(Failure(d.err), st, <<>>)
          ELSE IF req.item = NoStr THEN Out(Failure("TypeError"), st, <<>>)
          ELSE IF ReadErr(t, ap) # "" THEN Out(Failure(ReadErr(t, ap)), st, <<>>)
          ELSE IF ~t[ap].zip THEN Out(Failure("BadZipFile"), st, <<>>)
          ELSE IF FileCollides(t[ap].tree, t, d.path) THEN Out(Failure("BadRequest"), st, <<>>)
          ELSE Bind(copy_dir(Ok(st, <<>>), t[ap].tree, "None", <<>>, d.fs, PathParts(d.path)),
                    LAMBDA o :
                 IF o.err # "" THEN Out(Failure(o.err), o.st, o.log)
                 ELSE Out(_index(req, ads, def, o.st), o.st, o.log)))

(***************************************************************************)
(* The handlers that create, rename and delete, and dispatch_request       *)
(***************************************************************************)
\* payload.get("name", "")
NameOf(req) == IF req.name = NoStr THEN <<>> ELSE req.name

\* _newfolder: fs.makedir(fspath.join(path, name)), then the listing
_newfolder(req, ads, def, st) ==
    Bind(delegate(req, ads, def), LAMBDA d :
      IF d.err # "" THEN Out(Failure(d.err), st, <<>>)
      ELSE IF ~joinOk(d.path, NameOf(req)) THEN Out(Failure("IllegalBackReference"), st, <<>>)
      ELSE Bind(makedir(Ok(st, <<>>), d.fs, PathParts(join(d.path, NameOf(req))), FALSE),
                LAMBDA o :
             IF o.err # "" THEN Out(Failure(o.err), o.st, o.log)
             ELSE Out(_index(req, ads, def, o.st), o.st, o.log)))

\* _newfile: fs.openbin(fspath.join(path, name), "wb") opened and closed, then
\* the listing
_newfile(req, ads, def, st) ==
    Bind(delegate(req, ads, def), LAMBDA d :
      IF d.err # "" THEN Out(Failure(d.err), st, <<>>)
      ELSE IF ~joinOk(d.path, NameOf(req)) THEN Out(Failure("IllegalBackReference"), st, <<>>)
      ELSE Bind(writefile(Ok(st, <<>>), d.fs, PathParts(join(d.path, NameOf(req))), RawFile("")),
                LAMBDA o :
             IF o.err # "" THEN Out(Failure(o.err), o.st, o.log)
             ELSE Out(_index(req, ads, def, o.st), o.st, o.log)))

\* _rename: delegate, get_json, then self.__move, which inside the class is
\* the attribute _VuefinderApp__move; the class defines no such method, and
\* the attribute is looked up before the arguments of the call are computed
_rename(req, ads, def, st) ==
    Bind(delegate(req, ads, def), LAMBDA d :
      IF d.err # "" THEN Out(Failure(d.err), st, <<>>)
      ELSE Out(Failure("AttributeError"), st, <<>>))

\* _delete, the body of the loop: the item's path on the request's backend
DeleteItem(o, fs, item) ==
    IF fs_isdir(o.st[fs], _abspath(item))
    THEN fs_removetree(o, fs, PathParts(_abspath(item)))
    ELSE fs_remove(o, fs, PathParts(_abspath(item)))

RECURSIVE DeleteItems(_, _, _)
DeleteItems(o, fs, items) ==
    IF o.err # "" \/ items = <<>> THEN o
    ELSE Bind(DeleteItem(o, fs, Head(items)), LAMBDA n : DeleteItems(n, fs, Tail(items)))

\* _delete
_delete(req, ads, def, st) ==
    Bind(delegate(req, ads, def), LAMBDA d :
      IF d.err # "" THEN Out(Failure(d.err), st, <<>>)
      ELSE Bind(DeleteItems(Ok(st, <<>>), d.fs, req.items), LAMBDA o :
             IF o.err # "" THEN Out(Failure(o.err), o.st, o.log)
             ELSE Out(_index(req, ads, def, o.st), o.st, o.log)))

\* _search: _index with the filter of the request; _index itself is the
\* endpoint of index, which passes no filter
_search(req, ads, def, st) == Out(_index(req, ads, def, st), st, <<>>)

\* self.endpoints: the (method, action) pairs of the table
endpoints ==
    {<<"GET", <<q>>>> : q \in {"index", "preview", "subfolders", "download",
                               "download_archive", "search"}}
      \cup {<<"POST", <<q>>>> : q \in {"newfolder", "newfile", "rename", "move", "copy",
                                      "delete", "upload", "archive", "unarchive", "save"}}

\* self.endpoints[endpoint](request), for the handlers of the model
CallEndpoint(req, ads, def, st) ==
    CASE req.q = <<"index">> -> _search([req EXCEPT !.filter = NoStr], ads, def, st)
      [] req.q = <<"search">> -> _search(req, ads, def, st)
      [] req.q = <<"newfolder">> -> _newfolder(req, ads, def, st)
      [] req.q = <<"newfile">> -> _newfile(req, ads, def, st)
      [] req.q = <<"rename">> -> _rename(req, ads, def, st)
      [] req.q = <<"move">> -> _move(req, ads, def, st)
      [] req.q = <<"copy">> -> _copy(req, ads, def, st)
      [] req.q = <<"delete">> -> _delete(req, ads, def, st)
      [] req.q = <<"archive">> -> _archive(req, ads, def, st)
      [] req.q = <<"unarchive">> -> _unarchive(req, ads, def, st)

\* the headers dispatch_request adds when enable_cors is set
CorsHeaders == {"Access-Control-Allow-Origin", "Access-Control-Allow-Headers"}

\* what dispatch_request comes to: the response (status 0: an exception leaves
\* dispatch_request and there is no response), whether its body is JSON, its
\* headers, the handlers that were called, the backends and the writes
Done(resp, json, headers, calls, st, log) ==
    [resp |-> resp, json |-> json, headers |-> headers, calls |-> calls,
     st |-> st, log |-> log]

\* dispatch_request: OPTIONS is answered at once; method + ":" + q is a
\* TypeError when there is no q; BadRequest is raised for a pair that is not
\* in the table, outside the try statement; the handler's FSError or
\* BadRequest becomes a JSON response of status 400, any other exception of
\* the handler leaves dispatch_request
dispatch_request(req, cors, ads, def, st) ==
    LET headers == IF cors THEN CorsHeaders ELSE {}
    IN  IF req.method = "OPTIONS"
        THEN Done(Response(200, ""), FALSE, headers, <<>>, st, <<>>)
        ELSE IF req.q = NoStr THEN Done(Response(0, "TypeError"), FALSE, {}, <<>>, st, <<>>)
        ELSE IF <<req.method, req.q>> \notin endpoints
             THEN Done(Response(0, "BadRequest"), FALSE, {}, <<>>, st, <<>>)
        ELSE Bind(CallEndpoint(req, ads, def, st), LAMBDA out :
               IF out.resp.status = 0
               THEN Done(out.resp, FALSE, {}, <<req.q>>, out.st, out.log)
               ELSE Done(out.resp, TRUE, {"content-length"} \cup headers, <<req.q>>,
                         out.st, out.log))

(***************************************************************************)
(* Requests against create_test_app's application: m1 and m2 registered,   *)
(* m1 the default, m1's backend filled entry by entry (fill_fs), m2's      *)
(* empty.  Each request is handled from its first step to its response.    *)
(***************************************************************************)
MaxNodes == 3        \* entries fill_fs may find in a backend
MaxItems == 2        \* items of a request

FillNames == {<<"a">>, <<"b">>}
FillNodes == {DirNode, RawFile(""), RawFile("x")}
ArchiveNames == {<<"out">>, NoStr}

VPath(key, parts) == key \o Scheme \o JoinSlash(parts)
DirsOf(t) == {<<>>} \cup {q \in DOMAIN t : t[q].dir}

\* the lists of up to MaxItems different elements of S
ItemLists(S) ==
    UNION {{l \in [1..n -> S] : \A i, j \in 1..n : l[i] = l[j] => i = j} : n \in 0..MaxItems}

\* fill_fs, one entry: fs.create(k), a file written, or fs.makedir(k)
fill(t) ==
    /\ CanCall(t)
    /\ Cardinality(DOMAIN store["M1"]) < MaxNodes
    /\ \E d \in DirsOf(store["M1"]), n \in FillNames, node \in FillNodes :
         /\ ~ExistsAt(store["M1"], Append(d, n))
         /\ store' = [store EXCEPT !["M1"] = Put(@, Append(d, n), node)]
    /\ UNCHANGED <<enable_cors, _adapters, _default, threads, results, hist>>

\* a request was handled: what it found, what it left, what it answered
Handled(t, op, req, out) ==
    /\ store' = out.st
    /\ hist' = Append(hist, [op |-> op, req |-> req, pre |-> store, post |-> out.st,
                             resp |-> out.resp, log |-> out.log])
    /\ threads' = [threads EXCEPT ![t] = Idle(@.left - 1)]
    /\ UNCHANGED <<enable_cors, _adapters, _default, results>>

M1Paths == {VPath(<<"m1">>, q) : q \in DOMAIN store["M1"]}
M1Dirs == {VPath(<<"m1">>, q) : q \in DirsOf(store["M1"])}

TransferRequests(q) ==
    {[Request("POST", <<q>>, <<"m1">>, pth) EXCEPT !.item = dst, !.items = items] :
        pth \in {NoStr},
        dst \in M1Dirs \cup {VPath(<<"m2">>, <<>>)},
        items \in ItemLists(M1Paths)}

dispatch_move(t) ==
    /\ CanCall(t)
    /\ \E req \in TransferRequests("move") :
         \E out \in {_move(req, _adapters, _default, store)} : Handled(t, "move", req, out)

dispatch_copy(t) ==
    /\ CanCall(t)
    /\ \E req \in TransferRequests("copy") :
         \E out \in {_copy(req, _adapters, _default, store)} : Handled(t, "copy", req, out)

\* an archive request, the first request of the thread
dispatch_archive(t) ==
    /\ CanCall(t) /\ threads[t].left = 2
    /\ \E pth \in M1Dirs, name \in ArchiveNames, items \in ItemLists(M1Paths) :
         LET req == [Request("POST", <<"archive">>, <<"m1">>, pth)
                       EXCEPT !.name = name, !.items = items]
         IN  \E out \in {_archive(req, _adapters, _default, store)} :
                 Handled(t, "archive", req, out)

\* an unarchive request, the second, once the archive request has answered 200
dispatch_unarchive(t) ==
    /\ CanCall(t) /\ threads[t].left = 1
    /\ hist[Len(hist)].resp.status = 200
    /\ \E pth \in M1Dirs, item \in M1Paths \cup {NoStr} :
         LET req == [Request("POST", <<"unarchive">>, <<"m1">>, pth) EXCEPT !.item = item]
         IN  \E out \in {_unarchive(req, _adapters, _default, store)} :
                 Handled(t, "unarchive", req, out)

(***************************************************************************)
(* Requests that go through dispatch_request                               *)
(***************************************************************************)
\* dispatch_request has handled the request
Dispatched(t, req, out) ==
    /\ store' = out.st
    /\ hist' = Append(hist, [op |-> req.q[1], req |-> req, pre |-> store, post |-> out.st,
                             resp |-> out.resp, log |-> out.log, json |-> out.json,
                             headers |-> out.headers, calls |-> out.calls])
    /\ threads' = [threads EXCEPT ![t] = Idle(@.left - 1)]
    /\ UNCHANGED <<enable_cors, _adapters, _default, results>>

Serve(t, req) ==
    \E out \in {dispatch_request(req, enable_cors, _adapters, _default, store)} :
        Dispatched(t, req, out)

\* fill_fs on m2's backend: one entry at the root
fill_m2(t) ==
    /\ CanCall(t)
    /\ store["M2"] = NoTree
    /\ \E node \in {DirNode, RawFile("x")} :
         store' = [store EXCEPT !["M2"] = Put(@, <<<<"a">>>>, node)]
    /\ UNCHANGED <<enable_cors, _adapters, _default, threads, results, hist>>

\* fill_fs, one entry: fs.create("out.zip") in a directory of m1's backend
fill_archive(t) ==
    /\ CanCall(t)
    /\ Cardinality(DOMAIN store["M1"]) < MaxNodes
    /\ \E d \in DirsOf(store["M1"]) :
         /\ ~ExistsAt(store["M1"], Append(d, <<"out", ".zip">>))
         /\ store' = [store EXCEPT !["M1"] = Put(@, Append(d, <<"out", ".zip">>), RawFile(""))]
    /\ UNCHANGED <<enable_cors, _adapters, _default, threads, results, hist>>

CreateNames == FillNames \cup {NoStr, <<"a", "/", "b">>}
UnroutedPairs ==
    {<<"GET", NoStr>>, <<"POST", NoStr>>, <<"GET", <<"move">>>>, <<"POST", <<"index">>>>,
     <<"GET", <<"zz">>>>}
BothPaths == {VPath(k, q) : k \in RegKeys, q \in DOMAIN store["M1"]}

dispatch_options(t) ==
    /\ CanCall(t)
    /\ \E q \in {<<"index">>, <<"newfolder">>, NoStr} :
         Serve(t, [Request("OPTIONS", q, <<"m1">>, NoStr) EXCEPT !.name = <<"a">>])

\* a request whose (method, q) is not a key of self.endpoints
dispatch_unrouted(t) ==
    /\ CanCall(t)
    /\ \E pair \in UnroutedPairs :
         Serve(t, [Request(pair[1], pair[2], <<"m1">>, NoStr)
                     EXCEPT !.name = <<"a">>, !.item = VPath(<<"m2">>, <<>>),
                            !.items = <<VPath(<<"m1">>, <<<<"a">>>>)>>])

dispatch_listing(t) ==
    /\ CanCall(t)
    /\ \E q \in {"index", "search"}, a \in {<<"m1">>}, pth \in M1Dirs \cup {NoStr},
          f \in {NoStr, <<"a">>} :
         Serve(t, [Request("GET", <<q>>, a, pth) EXCEPT !.filter = f])

dispatch_newfolder(t) ==
    /\ CanCall(t)
    /\ \E pth \in M1Dirs, name \in CreateNames :
         Serve(t, [Request("POST", <<"newfolder">>, <<"m1">>, pth) EXCEPT !.name = name])

dispatch_newfile(t) ==
    /\ CanCall(t)
    /\ \E pth \in M1Dirs, name \in CreateNames :
         Serve(t, [Request("POST", <<"newfile">>, <<"m1">>, pth) EXCEPT !.name = name])

dispatch_rename(t) ==
    /\ CanCall(t)
    /\ \E pth \in M1Dirs, item \in M1Paths, name \in FillNames \cup {<<"c">>} :
         Serve(t, [Request("POST", <<"rename">>, <<"m1">>, pth)
                     EXCEPT !.name = name, !.item = item])

dispatch_delete(t) ==
    /\ CanCall(t)
    /\ \E a \in RegKeys, items \in ItemLists(BothPaths) :
         Serve(t, [Request("POST", <<"delete">>, a, NoStr) EXCEPT !.items = items])

\* an archive request with any name
dispatch_archive_named(t) ==
    /\ CanCall(t)
    /\ \E pth \in M1Dirs, name \in ArchiveNames \cup {<<"a", "/", "b">>},
          items \in ItemLists(M1Paths) :
         Serve(t, [Request("POST", <<"archive">>, <<"m1">>, pth)
                     EXCEPT !.name = name, !.items = items])

(***************************************************************************)
(* The listing of a directory whatever the order in which the backend      *)
(* enumerates its entries                                                  *)
(***************************************************************************)
MaxEntries == 3      \* entries of the directory that is listed

ListNames == {<<"foo">>, <<"Foo">>, <<"foobar">>, <<"bar", ".txt">>, <<"zz", ".txt">>}

\* the contents of a backend with up to MaxEntries entries at its root
ListTrees ==
    UNION {[{<<n>> : n \in S} -> {DirNode, RawFile("")}] :
             S \in {X \in SUBSET ListNames : Cardinality(X) <= MaxEntries}}

\* the orders in which fs.scandir may yield the entries S
Enumerations(S) ==
    {e \in [1..Cardinality(S) -> S] : \A i, j \in 1..Cardinality(S) : e[i] = e[j] => i = j}

\* _index, lines 149 to 152: the filter, then the sort
Listed(infos, filter) ==
    SortInfos(IF filter = NoStr \/ filter = <<>> THEN infos
              ELSE SelectSeq(infos, LAMBDA i : \E k \in 1..Len(i.name) :
                                 <<i.name[k]>> = filter))

\* _index or _search on the root of m1's backend, fs.scandir yielding the
\* entries in the order e
list_directory(t) ==
    /\ CanCall(t)
    /\ \E q \in {"index", "search"}, e \in Enumerations(ChildrenAt(store["M1"], <<>>)) :
         LET req == [Request("GET", <<q>>, <<"m1">>, NoStr)
                       EXCEPT !.filter = IF q = "search" THEN <<"foo">> ELSE NoStr]
             infos == [i \in 1..Len(e) |->
                         [name |-> Last(e[i]), is_dir |-> store["M1"][e[i]].dir]]
             resp == [Response(200, "") EXCEPT
                        !.adapter = <<"m1">>,
                        !.files = Files(_default, <<"/">>, Listed(infos, req.filter))]
         IN  hist' = Append(hist, [op |-> q, req |-> req, pre |-> store, post |-> store,
                                   resp |-> resp, log |-> <<>>, infos |-> infos])
    /\ threads' = [threads EXCEPT ![t] = Idle(@.left - 1)]
    /\ UNCHANGED <<enable_cors, _adapters, _default, store, results>>

(***************************************************************************)
(* _split_path on paths of any shape                                       *)
(***************************************************************************)
MaxSegments == 3     \* segments of the path part

\* key://rest with the rest made of up to MaxSegments segments (a name, ".",
\* "..", or nothing between two slashes), rests that hold ":" or ":/", a key
\* followed by ":/" only, and bare paths
AnyPaths ==
    LET segs == {<<>>, <<"foo">>, <<"bar">>, <<".">>, <<"..">>}
        rests == {JoinSlash(l) : l \in UNION {[1..n -> segs] : n \in 0..MaxSegments}}
                   \cup {<<"foo", ":", "/", "bar">>, <<"foo", ":", "bar">>,
                         <<"foo", ":", "/", "/", "bar">>}
    IN  {k \o Scheme \o r : k \in RegKeys \cup {UnknownKey}, r \in rests}
          \cup {<<"m2", ":", "/", "foo">>}
          \cup {r \in rests : ~HasSep(r)}

call_split_path_any(t) ==
    /\ CanCall(t)
    /\ \E pth \in AnyPaths, fb \in RegBackends :
         results' = [results EXCEPT ![t] =
                       Result("_split_path", [NoRequest EXCEPT !.path = pth, !.item = <<fb>>],
                              NoResponse,
                              _split_path(_adapters, _default, pth, fb), _adapters, _default)]
    /\ threads' = [threads EXCEPT ![t] = Idle(@.left - 1)]
    /\ UNCHANGED <<enable_cors, _adapters, _default, store, hist>>

(***************************************************************************)
(* Specifications                                                          *)
(***************************************************************************)
InitApp(T, budget) ==
    /\ _adapters = <<>>
    /\ _default = None
    /\ store = InitStore
    /\ threads = [t \in T |-> Idle(budget[t])]
    /\ results = [t \in T |-> NoResult]
    /\ hist = <<>>
    /\ enable_cors = FALSE

\* one thread: the registry's operations and resolution, one call after another
InitSeq == InitApp({1}, [t \in {1} |-> MaxSeqCalls])
NextSeq ==
    \/ \E t \in DOMAIN threads : add_fs(t)
    \/ \E t \in DOMAIN threads : add_fs_len(t)
    \/ \E t \in DOMAIN threads : add_fs_default(t)
    \/ \E t \in DOMAIN threads : remove_fs(t)
    \/ \E t \in DOMAIN threads : clear(t)
    \/ \E t \in DOMAIN threads : dispatch_index(t)
    \/ \E t \in DOMAIN threads : index_step(t)
    \/ \E t \in DOMAIN threads : call_delegate(t)
    \/ \E t \in DOMAIN threads : call_split_path(t)
SpecSeq == InitSeq /\ [][NextSeq]_vars

\* threads that call add_fs, remove_fs, clear and dispatch index requests
InitRegistry == InitApp(1..NumThreads, [t \in 1..NumThreads |-> MaxCalls])
NextRegistry ==
    \/ \E t \in DOMAIN threads : add_fs(t)
    \/ \E t \in DOMAIN threads : add_fs_len(t)
    \/ \E t \in DOMAIN threads : add_fs_default(t)
    \/ \E t \in DOMAIN threads : remove_fs(t)
    \/ \E t \in DOMAIN threads : clear(t)
    \/ \E t \in DOMAIN threads : dispatch_index(t)
    \/ \E t \in DOMAIN threads : index_step(t)
SpecRegistry == InitRegistry /\ [][NextRegistry]_vars

\* test_threading
InitThreading == InitApp({Main} \cup Workers, [t \in {Main} \cup Workers |-> IF t = Main THEN 2 ELSE 3])
NextThreading ==
    \/ main_add_fs
    \/ \E t \in DOMAIN threads : add_fs_len(t)
    \/ \E t \in DOMAIN threads : add_fs_default(t)
    \/ \E t \in DOMAIN threads : index_step(t)
    \/ \E i \in Workers : worker_add_fs(i)
    \/ \E i \in Workers : worker_dispatch(i)
    \/ \E i \in Workers : worker_remove_fs(i)
SpecThreading == InitThreading /\ [][NextThreading]_vars

\* create_test_app, then fill_fs and one move or copy request
InitFiles(budget) ==
    /\ _adapters = <<Adapter(<<"m1">>, "M1"), Adapter(<<"m2">>, "M2")>>
    /\ _default = Adapter(<<"m1">>, "M1")
    /\ store = [b \in RegBackends |-> NoTree]
    /\ threads = [t \in {1} |-> Idle(budget)]
    /\ results = [t \in {1} |-> NoResult]
    /\ hist = <<>>
    /\ enable_cors = FALSE

InitTransfer == InitFiles(1)
NextTransfer ==
    \/ \E t \in DOMAIN threads : fill(t)
    \/ \E t \in DOMAIN threads : dispatch_move(t)
    \/ \E t \in DOMAIN threads : dispatch_copy(t)
SpecTransfer == InitTransfer /\ [][NextTransfer]_vars

\* create_test_app, then fill_fs, an archive request and, when that has
\* succeeded, an unarchive request
InitArchive == InitFiles(2)
NextArchive ==
    \/ \E t \in DOMAIN threads : fill(t)
    \/ \E t \in DOMAIN threads : dispatch_archive(t)
    \/ \E t \in DOMAIN threads : dispatch_unarchive(t)
SpecArchive == InitArchive /\ [][NextArchive]_vars

\* create_test_app with either setting of enable_cors, then fill_fs and one
\* request through dispatch_request
InitDispatch ==
    /\ _adapters = <<Adapter(<<"m1">>, "M1"), Adapter(<<"m2">>, "M2")>>
    /\ _default = Adapter(<<"m1">>, "M1")
    /\ store = [b \in RegBackends |-> NoTree]
    /\ threads = [t \in {1} |-> Idle(1)]
    /\ results = [t \in {1} |-> NoResult]
    /\ hist = <<>>
    /\ enable_cors \in BOOLEAN
NextDispatch ==
    \/ \E t \in DOMAIN threads : fill(t)
    \/ \E t \in DOMAIN threads : dispatch_options(t)
    \/ \E t \in DOMAIN threads : dispatch_unrouted(t)
    \/ \E t \in DOMAIN threads : dispatch_listing(t)
    \/ \E t \in DOMAIN threads : dispatch_newfolder(t)
    \/ \E t \in DOMAIN threads : dispatch_rename(t)
SpecDispatch == InitDispatch /\ [][NextDispatch]_vars

\* create_test_app, then fill_fs on both backends and one request that
\* creates, renames or deletes
NextEdit ==
    \/ \E t \in DOMAIN threads : fill(t)
    \/ \E t \in DOMAIN threads : fill_m2(t)
    \/ \E t \in DOMAIN threads : dispatch_newfolder(t)
    \/ \E t \in DOMAIN threads : dispatch_newfile(t)
    \/ \E t \in DOMAIN threads : dispatch_rename(t)
    \/ \E t \in DOMAIN threads : dispatch_delete(t)
SpecEdit == InitFiles(1) /\ [][NextEdit]_vars

\* create_test_app, then fill_fs and one archive request
NextArchiveOnce ==
    \/ \E t \in DOMAIN threads : fill(t)
    \/ \E t \in DOMAIN threads : fill_archive(t)
    \/ \E t \in DOMAIN threads : dispatch_archive_named(t)
SpecArchiveOnce == InitFiles(1) /\ [][NextArchiveOnce]_vars

\* a directory of m1's backend listed twice
InitListing ==
    /\ _adapters = <<Adapter(<<"m1">>, "M1"), Adapter(<<"m2">>, "M2")>>
    /\ _default = Adapter(<<"m1">>, "M1")
    /\ store \in {[b \in RegBackends |-> IF b = "M1" THEN tr ELSE NoTree] : tr \in ListTrees}
    /\ threads = [t \in {1} |-> Idle(2)]
    /\ results = [t \in {1} |-> NoResult]
    /\ hist = <<>>
    /\ enable_cors = FALSE
NextListing == \E t \in DOMAIN threads : list_directory(t)
SpecListing == InitListing /\ [][NextListing]_vars

\* create_test_app, then one path resolved by _split_path
NextPaths == \E t \in DOMAIN threads : call_split_path_any(t)
SpecPaths == InitFiles(1) /\ [][NextPaths]_vars

(***************************************************************************)
(* The registry's claims                                                   *)
(***************************************************************************)
Quiet == \A t \in DOMAIN threads : threads[t].pc = "idle"

\* C2: after any sequence of add_fs and remove_fs calls the default adapter is
\* the oldest adapter still registered: the first key of the registry, with
\* the backend registered under it.  Stated for the states between two calls.
C2_DefaultIsOldestRegistered ==
    (Quiet /\ _adapters # <<>>) => _default = _adapters[1]

\* C3: in test_threading every worker's dispatch returns 200, and the adapter,
\* the backend listed and the files of the response are the worker's own.
C3_WorkersSucceedOnOwnAdapter ==
    \A i \in Workers :
        results[i].op = "index" =>
            /\ results[i].resp.status = 200
            /\ results[i].resp.adapter = WorkerKey(i)
            /\ results[i].resp.fs = WorkerBackend(i)
            /\ [k \in 1..Len(results[i].resp.files) |-> results[i].resp.files[k].basename]
                 = <<WorkerFile(i)>>

\* C4: a lookup running beside add_fs, remove_fs and clear never finds a key
\* present and then missing: no request ends with the KeyError of
\* self._adapters[key].
C4_LookupNeverHalfApplied ==
    \A t \in DOMAIN threads :
        results[t].op = "index" => results[t].resp.exc # "KeyError"

\* C5: in a listing the adapter key of the response, the backend that was
\* listed and the dirname belong to one adapter: the backend listed is the
\* backend of the adapter whose key is reported, and a request without a path
\* reports that key's root as the dirname.
C5_OneAdapterPerListing ==
    \A t \in DOMAIN threads :
        (results[t].op = "index" /\ results[t].resp.status = 200) =>
            /\ results[t].resp.fs = results[t].resp.afs
            /\ results[t].req.path = NoStr =>
                   results[t].resp.dirname = results[t].resp.adapter \o Scheme

\* C10: whenever no call is under way, a registry that is not empty has a
\* default adapter.
C10_NonEmptyHasDefault ==
    (Quiet /\ _adapters # <<>>) => _default # None

\* the path part of a virtual path in absolute form, as the specification
\* words it: what follows "://" behind a slash, and a bare path with a
\* leading slash
C6_IsAbsoluteForm(vpath, path) ==
    /\ \A k \in PathKeys, r \in PathRests : vpath = k \o Scheme \o r => path = <<"/">> \o r
    /\ vpath = <<"foo">> => path = <<"/", "foo">>
    /\ vpath = <<"/", "foo">> => path = <<"/", "foo">>
    /\ vpath = <<>> => path = <<"/">>

C6_KeyOf(vpath) == IF HasSep(vpath) THEN SubSeq(vpath, 1, FindSep(vpath) - 1) ELSE NoStr

\* a resolution of an adapter key that is unknown, absent or empty: a
\* delegate whose adapter parameter is not registered, a _split_path whose
\* path names no registered key
C6_Unknown(r) ==
    \/ r.op = "delegate" /\ ~HasKey(r.ads, r.req.adapter)
    \/ r.op = "_split_path" /\ ~HasKey(r.ads, C6_KeyOf(r.req.path))

C6_Fallback(r) ==
    IF r.op = "_split_path" /\ r.req.item # <<"None">> THEN r.req.item[1]
    ELSE r.def.fs

C6_Returns(r) ==
    /\ r.res.err = ""
    /\ r.res.fs = C6_Fallback(r)
    /\ r.req.path # NoStr => C6_IsAbsoluteForm(r.req.path, r.res.path)
    /\ r.req.path = NoStr => r.res.path = <<"/">>

\* C6 as claimed: in every registry state the resolution of an unknown, absent
\* or empty adapter key raises nothing and returns the fallback adapter's
\* backend with the absolute form of the path part.
C6_ResolutionNeverRaises ==
    \A t \in DOMAIN threads : C6_Unknown(results[t]) => C6_Returns(results[t])

\* C6 as amended: the same, in the registry states that have a fallback: a
\* default adapter is set (add_fs has been called), or _split_path is given
\* its fallback backend.
C6_ResolutionFallsBack ==
    \A t \in DOMAIN threads :
        (/\ C6_Unknown(results[t])
         /\ (results[t].def # None
               \/ (results[t].op = "_split_path" /\ results[t].req.item # <<"None">>)))
            => C6_Returns(results[t])

\* "zz://foo" resolved by delegate with the adapter parameter "zz" while m1 is
\* the default: (M1, "/foo")
C6_Witness ==
    /\ results[1].op = "delegate"
    /\ results[1].req.adapter = UnknownKey
    /\ results[1].req.path = UnknownKey \o Scheme \o <<"foo">>
    /\ results[1].def = Adapter(<<"m1">>, "M1")
    /\ results[1].res = [err |-> "", fs |-> "M1", path |-> <<"/", "foo">>]

(***************************************************************************)
(* Move and copy                                                           *)
(***************************************************************************)
\* the backend and the path of an item's source and of its destination,
\* <destination-dir>/<basename>
T_Fs(h) == delegate(h.req, _adapters, _default).fs
T_Src(h, k) == _split_path(_adapters, _default, h.req.items[k], T_Fs(h))
T_DstDir(h) ==
    _split_path(_adapters, _default, IF h.req.item = NoStr THEN <<>> ELSE h.req.item, T_Fs(h))
T_SrcParts(h, k) == PathParts(T_Src(h, k).path)
T_DstParts(h, k) == Append(PathParts(T_DstDir(h).path), Last(T_SrcParts(h, k)))
T_Items(h) == 1..Len(h.req.items)

\* the item, as it was before the request, is at its destination
T_Placed(h, k) ==
    \A q \in SubtreeAt(h.pre[T_Src(h, k).fs], T_SrcParts(h, k)) :
        LET r == Under(T_SrcParts(h, k), T_DstParts(h, k), q)
        IN  /\ r \in DOMAIN h.post[T_DstDir(h).fs]
            /\ h.post[T_DstDir(h).fs][r] = h.pre[T_Src(h, k).fs][q]

T_Gone(h, k) == ~ExistsAt(h.post[T_Src(h, k).fs], T_SrcParts(h, k))

\* the source path holds after the request what it held before it
T_Kept(h, k) ==
    /\ SubtreeAt(h.post[T_Src(h, k).fs], T_SrcParts(h, k))
         = SubtreeAt(h.pre[T_Src(h, k).fs], T_SrcParts(h, k))
    /\ \A q \in SubtreeAt(h.pre[T_Src(h, k).fs], T_SrcParts(h, k)) :
         h.post[T_Src(h, k).fs][q] = h.pre[T_Src(h, k).fs][q]

\* when the source of the item is removed, every file of the item has been
\* written at the destination and every directory made there (or found there)
T_RemovedAfterPlaced(h, k) ==
    \A j \in 1..Len(h.log) :
        (h.log[j].op = "del" /\ h.log[j].fs = T_Src(h, k).fs
           /\ h.log[j].parts = T_SrcParts(h, k)) =>
            \A q \in SubtreeAt(h.pre[T_Src(h, k).fs], T_SrcParts(h, k)) :
                LET r == Under(T_SrcParts(h, k), T_DstParts(h, k), q)
                    n == h.pre[T_Src(h, k).fs][q]
                IN  \/ \E i \in 1..(j - 1) :
                          h.log[i] = [op |-> "put", fs |-> T_DstDir(h).fs, parts |-> r, node |-> n]
                    \/ n.dir /\ IsDirAt(h.pre[T_DstDir(h).fs], r)

T_Overlap(f, p, g, r) == f = g /\ (IsPrefix(p, r) \/ IsPrefix(r, p))

\* no item goes to where an item is: no destination
\* <destination-dir>/<basename> is the source path of an item, inside it or
\* above it
T_Apart(h) ==
    \A k, l \in T_Items(h) :
        ~T_Overlap(T_Src(h, l).fs, T_SrcParts(h, l), T_DstDir(h).fs, T_DstParts(h, k))

\* no item is inside another item
T_Disjoint(h) ==
    \A k, l \in T_Items(h) :
        k # l => ~T_Overlap(T_Src(h, k).fs, T_SrcParts(h, k), T_Src(h, l).fs, T_SrcParts(h, l))

\* the items go to different places: their basenames differ
T_DistinctNames(h) ==
    \A k, l \in T_Items(h) : k # l => Last(T_SrcParts(h, k)) # Last(T_SrcParts(h, l))

T_Moved(h) ==
    \A k \in T_Items(h) : T_Gone(h, k) /\ T_Placed(h, k) /\ T_RemovedAfterPlaced(h, k)

T_Copied(h) == \A k \in T_Items(h) : T_Placed(h, k) /\ T_Kept(h, k)

\* C7 as claimed, for any list of items that lie apart from each other and
\* from their destinations: a move request that answers 200 ends with every
\* item absent from its source path and present at
\* <destination-dir>/<basename> with the content it had, and no source was
\* removed before its data was at the destination.
C7_MoveAnyItems ==
    \A i \in 1..Len(hist) :
        (hist[i].op = "move" /\ hist[i].resp.status = 200
           /\ T_Apart(hist[i]) /\ T_Disjoint(hist[i]))
            => T_Moved(hist[i])

\* C7 as amended: the same, for the lists whose items have pairwise different
\* basenames.
C7_MoveSeparateItems ==
    \A i \in 1..Len(hist) :
        (hist[i].op = "move" /\ hist[i].resp.status = 200
           /\ T_Apart(hist[i]) /\ T_Disjoint(hist[i]) /\ T_DistinctNames(hist[i]))
            => T_Moved(hist[i])

\* a file and a directory with something in it, of one adapter, a list like
\* test_move's
T_FileAndDir(h) ==
    /\ Len(h.req.items) = 2
    /\ T_Apart(h) /\ T_Disjoint(h) /\ T_DistinctNames(h)
    /\ \E k, l \in T_Items(h) :
         /\ IsFileAt(h.pre[T_Src(h, k).fs], T_SrcParts(h, k))
         /\ ChildrenAt(h.pre[T_Src(h, l).fs], T_SrcParts(h, l)) # {}

\* a file and a directory of m1 moved into m2
C7_Witness ==
    \E i \in 1..Len(hist) :
        /\ hist[i].op = "move" /\ hist[i].resp.status = 200
        /\ T_FileAndDir(hist[i])
        /\ T_DstDir(hist[i]).fs = "M2"
        /\ Cardinality(DOMAIN hist[i].post["M2"]) = 3

\* C8 as claimed, for any list of items that lie apart from their
\* destinations: a copy request that answers 200 has placed every item at
\* <destination-dir>/<basename> with the content it had, and every source
\* path holds what it held.
C8_CopyAnyItems ==
    \A i \in 1..Len(hist) :
        (hist[i].op = "copy" /\ hist[i].resp.status = 200 /\ T_Apart(hist[i]))
            => T_Copied(hist[i])

\* C8 as amended: the same, for the lists whose items have pairwise different
\* basenames.
C8_CopySeparateItems ==
    \A i \in 1..Len(hist) :
        (hist[i].op = "copy" /\ hist[i].resp.status = 200
           /\ T_Apart(hist[i]) /\ T_DistinctNames(hist[i]))
            => T_Copied(hist[i])

\* a file and a directory of m1 copied into a directory of m1
C8_Witness ==
    \E i \in 1..Len(hist) :
        /\ hist[i].op = "copy" /\ hist[i].resp.status = 200
        /\ T_FileAndDir(hist[i])
        /\ T_DstDir(hist[i]).fs = "M2"
        /\ hist[i].post["M1"] = hist[i].pre["M1"]
        /\ Cardinality(DOMAIN hist[i].post["M2"]) = 3

(***************************************************************************)
(* Archive and unarchive                                                   *)
(***************************************************************************)
\* the backend of a request, the directory it names, the file its item names
A_Fs(h) == delegate(h.req, _adapters, _default).fs
A_Dir(h) == PathParts(delegate(h.req, _adapters, _default).path)
A_Item(h) == PathParts(_abspath(h.req.item))

\* the unarchive request h names an archive, and an entry of that archive has
\* its destination path taken: something is there before the request
C1_Collides(h) ==
    /\ h.req.item # NoStr
    /\ IsFileAt(h.pre[A_Fs(h)], A_Item(h))
    /\ h.pre[A_Fs(h)][A_Item(h)].zip
    /\ \E q \in DOMAIN h.pre[A_Fs(h)][A_Item(h)].tree :
         ExistsAt(h.pre[A_Fs(h)], A_Dir(h) \o q)

\* C1: an unarchive request with an entry of the archive colliding with
\* something at its destination path fails, and leaves the backends as they
\* were before the request.
C1_CollisionFailsWithoutWrites ==
    \A i \in 1..Len(hist) :
        (hist[i].op = "unarchive" /\ C1_Collides(hist[i])) =>
            /\ hist[i].resp.status = 400
            /\ hist[i].post = hist[i].pre

\* the items of the archive request h are entries of the directory it names
C9_ItemsOfDir(h) ==
    \A k \in 1..Len(h.req.items) :
        PathParts(_abspath(h.req.items[k])) \in ChildrenAt(h.pre[A_Fs(h)], A_Dir(h))

\* what the archive request h was to archive: its items and all below them
C9_Archived(h) ==
    UNION {SubtreeAt(h.pre[A_Fs(h)], PathParts(_abspath(h.req.items[k]))) :
             k \in 1..Len(h.req.items)}

\* u unarchives, into an empty directory, the archive that h made
C9_Unarchives(h, u) ==
    /\ h.op = "archive" /\ h.resp.status = 200
    /\ u.op = "unarchive" /\ u.resp.status = 200
    /\ C9_ItemsOfDir(h)
    /\ A_Fs(u) = A_Fs(h)
    /\ u.req.item # NoStr
    /\ A_Item(u) = Append(A_Dir(h), _get_filename(h.req).name)
    /\ IsDirAt(u.pre[A_Fs(u)], A_Dir(u))
    /\ ChildrenAt(u.pre[A_Fs(u)], A_Dir(u)) = {}

\* C9: an archive of items of a directory, unarchived into an empty
\* directory, leaves in that directory what was archived and nothing else:
\* the same names in the same places, each file with the bytes it had.
C9_RoundTrip ==
    \A i, j \in 1..Len(hist) :
        (i < j /\ C9_Unarchives(hist[i], hist[j])) =>
            LET h == hist[i]
                u == hist[j]
                there == u.post[A_Fs(u)]
            IN  /\ SubtreeAt(there, A_Dir(u)) \ {A_Dir(u)}
                     = {Under(A_Dir(h), A_Dir(u), q) : q \in C9_Archived(h)}
                /\ \A q \in C9_Archived(h) :
                     there[Under(A_Dir(h), A_Dir(u), q)] = h.pre[A_Fs(h)][q]

\* a directory with a file of one byte in it, archived and unarchived
C9_Witness ==
    \E i, j \in 1..Len(hist) :
        /\ i < j /\ C9_Unarchives(hist[i], hist[j])
        /\ \E q \in C9_Archived(hist[i]) :
             /\ hist[i].pre[A_Fs(hist[i])][q] = RawFile("x")
             /\ Len(q) = Len(A_Dir(hist[i])) + 2

(***************************************************************************)
(* add_fs on a registered key, and clear                                   *)
(***************************************************************************)
\* the thread's add_fs(key, fs) returns in this step
AddReturns(t) ==
    /\ threads[t].pc \in {"add_len", "add_default"}
    /\ threads'[t].pc = "idle"

\* C11: when add_fs(key, fs) has replaced the backend of a registered key (a
\* key that is not the last of the registry when the call returns was there
\* before the call) and that key is the default adapter's, the default adapter
\* carries the new backend, so that the fallback returns it.
C11_ReplacedBackendIsReturned ==
    [][\A t \in DOMAIN threads :
         (/\ AddReturns(t)
          /\ HasKey(_adapters', threads[t].key)
          /\ _adapters'[Len(_adapters')].key # threads[t].key
          /\ _default' # None
          /\ _default'.key = threads[t].key)
            => _default'.fs = threads[t].fs]_vars

\* C12: a step that empties a registry of two or more adapters (remove_fs
\* takes one key away, so the step is clear) leaves no default adapter.
C12_ClearUnsetsDefault ==
    [][(Len(_adapters) >= 2 /\ _adapters' = <<>>) => _default' = None]_vars

(***************************************************************************)
(* The dispatcher                                                          *)
(***************************************************************************)
\* the request's (method, action) pair is a key of the handler table
Routed(h) == <<h.req.method, h.req.q>> \in endpoints

\* C13: a request that is not OPTIONS and whose (method, action) pair is not
\* in the handler table (a request without an action included) has no handler
\* called and nothing written, and is answered by a response of a 400-class
\* status with a JSON error body.
C13_UnroutedIsAnswered400 ==
    \A i \in 1..Len(hist) :
        (hist[i].req.method # "OPTIONS" /\ ~Routed(hist[i])) =>
            /\ hist[i].calls = <<>>
            /\ hist[i].post = hist[i].pre
            /\ hist[i].resp.status \in 400..499
            /\ hist[i].json

\* C14: a request whose (method, action) pair is in the handler table has its
\* handler called once, ends with a response, whether the handler returned or
\* raised, and with enable_cors set that response carries the cross-origin
\* headers.
C14_HandledOnceAndAnswered ==
    \A i \in 1..Len(hist) :
        (hist[i].req.method # "OPTIONS" /\ Routed(hist[i])) =>
            /\ hist[i].calls = <<hist[i].req.q>>
            /\ hist[i].resp.status # 0
            /\ enable_cors => CorsHeaders \subseteq hist[i].headers

(***************************************************************************)
(* Rename, create, delete                                                  *)
(***************************************************************************)
\* <resolved-dir>/<name> of the request
E_Target(h) == Append(A_Dir(h), h.req.name)

\* the rename request h names an item that exists, a directory that exists
\* and a new name that is free there and not inside the item
C15_Renamable(h) ==
    /\ h.op = "rename"
    /\ A_Item(h) # <<>>
    /\ ExistsAt(h.pre[A_Fs(h)], A_Item(h))
    /\ IsDirAt(h.pre[A_Fs(h)], A_Dir(h))
    /\ ~ExistsAt(h.pre[A_Fs(h)], E_Target(h))
    /\ ~IsPrefix(A_Item(h), E_Target(h))

\* C15: a rename of an existing item to a new name answers 200 and leaves the
\* item, with all below it, at <resolved-dir>/<new-name> on the same adapter
\* and nothing at its old path.
C15_RenameMovesItem ==
    \A i \in 1..Len(hist) :
        C15_Renamable(hist[i]) =>
            LET h == hist[i]
            IN  /\ h.resp.status = 200
                /\ ~ExistsAt(h.post[A_Fs(h)], A_Item(h))
                /\ \A q \in SubtreeAt(h.pre[A_Fs(h)], A_Item(h)) :
                     /\ Under(A_Item(h), E_Target(h), q) \in DOMAIN h.post[A_Fs(h)]
                     /\ h.post[A_Fs(h)][Under(A_Item(h), E_Target(h), q)] = h.pre[A_Fs(h)][q]

\* the create request h has an invalid name, or a valid name that is taken
C16_MustFail(h) ==
    \/ ~is_valid_filename(NameOf(h.req))
    \/ ExistsAt(h.pre[A_Fs(h)], E_Target(h))

\* C16: a create-file or create-directory request with an invalid name, or
\* with the name of an object that exists in the directory, fails and leaves
\* the backends as they were; one that succeeds leaves an empty file, or an
\* empty directory, at <resolved-dir>/<name>.
C16_CreateFailsOnTakenName ==
    \A i \in 1..Len(hist) :
        hist[i].op \in {"newfolder", "newfile"} =>
            LET h == hist[i]
            IN  /\ C16_MustFail(h) => (h.resp.status = 400 /\ h.post = h.pre)
                /\ (h.resp.status = 200 /\ is_valid_filename(NameOf(h.req))) =>
                     /\ E_Target(h) \in DOMAIN h.post[A_Fs(h)]
                     /\ h.post[A_Fs(h)][E_Target(h)]
                          = (IF h.op = "newfolder" THEN DirNode ELSE RawFile(""))
                     /\ ChildrenAt(h.post[A_Fs(h)], E_Target(h)) = {}

\* the backend registered under the key of the item k://p, and p
D_Fs(item) == GetItem(_adapters, SplitSep(item)[1])
D_Parts(item) == PathParts(_abspath(item))

\* C18: a delete request removes, for each item k://p, the object p of the
\* adapter registered under k: every removal is the removal of an item's path
\* on that item's backend, a backend that no item names is left as it was,
\* and after a 200 no item is left on its backend.
C18_DeleteOnNamedBackend ==
    \A i \in 1..Len(hist) :
        hist[i].op = "delete" =>
            LET h == hist[i]
                K == 1..Len(h.req.items)
            IN  /\ \A j \in 1..Len(h.log) :
                     \E k \in K : /\ h.log[j].fs = D_Fs(h.req.items[k])
                                  /\ h.log[j].parts = D_Parts(h.req.items[k])
                /\ \A b \in RegBackends :
                     (\A k \in K : D_Fs(h.req.items[k]) # b) => h.post[b] = h.pre[b]
                /\ h.resp.status = 200 =>
                     \A k \in K : ~ExistsAt(h.post[D_Fs(h.req.items[k])], D_Parts(h.req.items[k]))

(***************************************************************************)
(* The order of a listing                                                  *)
(***************************************************************************)
\* directories before files, each tier in the order of the names without
\* regard to case
C17_InOrder(files) ==
    \A a, b \in 1..Len(files) :
        a < b =>
            /\ files[a].type = "file" => files[b].type = "file"
            /\ files[a].type = files[b].type =>
                 ~StrLess(lower(files[b].basename), lower(files[a].basename))

\* C17: a listing (index or search) has all directories before all files,
\* each tier ordered by name without regard to case, and two listings of the
\* same directory content by the same request are the same list, whatever
\* the order in which the backend enumerated the entries.
C17_ListingOrderIsFixed ==
    /\ \A i \in 1..Len(hist) : C17_InOrder(hist[i].resp.files)
    /\ \A i, j \in 1..Len(hist) :
         (hist[i].req = hist[j].req /\ hist[i].pre = hist[j].pre)
            => hist[i].resp.files = hist[j].resp.files

(***************************************************************************)
(* Archive: the checks before the writes, and the traversal                *)
(***************************************************************************)
\* the archive request h has no name, an invalid name, or a name whose
\* archive path <resolved-dir>/<name>.zip is taken
C19_MustFail(h) ==
    \/ h.req.name = NoStr
    \/ ~is_valid_filename(h.req.name)
    \/ ExistsAt(h.pre[A_Fs(h)], Append(A_Dir(h), h.req.name \o <<".zip">>))

\* C19: an archive request whose name is missing or invalid, or whose archive
\* path is taken, fails with nothing written: the backends are as they were
\* before the request.
C19_ChecksBeforeWrites ==
    \A i \in 1..Len(hist) :
        (hist[i].op = "archive" /\ C19_MustFail(hist[i])) =>
            /\ hist[i].resp.status = 400
            /\ hist[i].log = <<>>
            /\ hist[i].post = hist[i].pre

\* an archive request with a valid name and items, refused because out.zip is
\* there already; out.zip and all else is as it was
C19_Witness ==
    \E i \in 1..Len(hist) :
        /\ hist[i].op = "archive"
        /\ hist[i].req.name = <<"out">>
        /\ hist[i].req.items # <<>>
        /\ Append(A_Dir(hist[i]), <<"out", ".zip">>) \in DOMAIN hist[i].pre[A_Fs(hist[i])]
        /\ hist[i].resp.status = 400
        /\ hist[i].post = hist[i].pre

\* the archive request h has a valid name, a free archive path, and items
\* that exist below the directory of the request
C20_Archivable(h) ==
    /\ h.op = "archive"
    /\ ~C19_MustFail(h)
    /\ IsDirAt(h.pre[A_Fs(h)], A_Dir(h))
    /\ \A k \in 1..Len(h.req.items) :
         LET q == PathParts(_abspath(h.req.items[k]))
         IN  ExistsAt(h.pre[A_Fs(h)], q) /\ IsPrefix(A_Dir(h), q) /\ q # A_Dir(h)

\* C20: the traversal ends, and the archive then holds every file and every
\* directory of the subtree of each item, at its path relative to the
\* directory of the request, with its content, and nothing else.
C20_ArchiveIsComplete ==
    \A i \in 1..Len(hist) :
        C20_Archivable(hist[i]) =>
            LET h == hist[i]
                ap == Append(A_Dir(h), h.req.name \o <<".zip">>)
                there == h.post[A_Fs(h)]
            IN  /\ h.resp.status = 200
                /\ ap \in DOMAIN there
                /\ there[ap].zip
                /\ DOMAIN there[ap].tree = {Under(A_Dir(h), <<>>, q) : q \in C9_Archived(h)}
                /\ \A q \in C9_Archived(h) :
                     there[ap].tree[Under(A_Dir(h), <<>>, q)] = h.pre[A_Fs(h)][q]

(***************************************************************************)
(* The resolved path                                                       *)
(***************************************************************************)
\* the position of the first "://" in s, 0 when there is none
P_FindScheme(s) ==
    LET I == {i \in 1..(Len(s) - 2) : SubSeq(s, i, i + 2) = Scheme}
    IN  IF I = {} THEN 0 ELSE Min(I)

\* the path part of a virtual path: all that follows the first "://", the
\* whole string when there is no "://"
P_Remainder(s) ==
    IF P_FindScheme(s) = 0 THEN s ELSE SubSeq(s, P_FindScheme(s) + 3, Len(s))

\* an absolute path in normal form: a leading slash, no "." and no ".."
\* segment, no trailing slash but the root's
P_IsNormalAbsolute(path) ==
    /\ path # <<>> /\ path[1] = "/"
    /\ \A k \in 1..Len(SplitSlash(path)) : SplitSlash(path)[k] \notin {<<".">>, <<"..">>}
    /\ path[Len(path)] = "/" => path = <<"/">>

\* the segments of the path part are names, with nothing to normalise
P_IsPlain(rest) ==
    /\ rest # <<>>
    /\ \A k \in 1..Len(SplitSlash(rest)) : SplitSlash(rest)[k] \notin {<<>>, <<".">>, <<"..">>}

\* C21: the path _split_path resolves a virtual path to is absolute and in
\* normal form; it is the whole of what follows the first "://" (behind a
\* slash, when that holds only names), and a path without "://" is a path as
\* a whole, resolved on the fallback backend.
C21_ResolvedPathIsNormal ==
    \A t \in DOMAIN threads :
        results[t].op = "_split_path" =>
            LET r == results[t]
                rest == P_Remainder(r.req.path)
            IN  /\ r.res.err = ""
                /\ P_IsNormalAbsolute(r.res.path)
                /\ P_IsPlain(rest) => r.res.path = <<"/">> \o rest
                /\ P_FindScheme(r.req.path) = 0 => r.res.fs = r.req.item[1]

=============================================================================
